---- MODULE Spec2Model ----
(***************************************************************************)
(* A model of matrix_client.crypto: the persistent CryptoStore (an SQLite  *)
(* database reached through one connection per calling thread) and the     *)
(* one-time-key lifecycle of OlmDevice.                                    *)
(*                                                                         *)
(* The database is a record of tables, each table a set of rows.  `disk`   *)
(* is the committed database.  A connection that has executed a write      *)
(* statement and not yet committed holds SQLite's write lock, and `work`   *)
(* is the database as that connection sees it.  A                          *)
(* handler of CryptoStore is one action: its statements run on the         *)
(* caller's connection and no other connection can write in between,       *)
(* because the first write statement takes the lock.                       *)
(***************************************************************************)
EXTENDS Integers, Sequences, FiniteSets, TLC

VARIABLES
    disk,       \* the committed database
    work,       \* the database as the writing connection sees it (disk, when none writes)
    conns,      \* CryptoStore._conn of every store: connection -> its pragma and lock
    last,       \* the last CryptoStore call: its name, connection, arguments, outcome
    calls,      \* the calls made so far, where a scenario bounds them
    otk         \* the OlmDevice, its account's one-time keys and the homeserver

vars == <<disk, work, conns, last, calls, otk>>

\* Python's optional values: None, or a value x as Some(x).
None == <<>>
Some(x) == <<x>>

(***************************************************************************)
(* Identifiers the callers draw their arguments from.                      *)
(***************************************************************************)
DeviceIds == {"A", "B"}          \* one CryptoStore per local device id, one shared file
MainThread == "main"             \* the thread that constructs the stores
Threads == {"main", "worker"}
Conns == DeviceIds \X Threads    \* <<store's device id, calling thread>>
Accounts == {"acc1", "acc2"}
CurveKeys == {"k1", "k2"}
OlmSessions == {[id |-> "s1"], [id |-> "s2"]}
InboundSessions == {[id |-> "g1"]}
Rooms == {"r1"}
PeerDevices == {"d1", "d2"}
UserIds == {"u1", "u2"}

\* CryptoStore.__init__: pickle_key defaults to 'DEFAULT_KEY' for every store.
pickle_key(device_id) == "DEFAULT_KEY"

\* <object>.pickle(key): the engine's serialisation, readable only with the key.
Pickle(obj, key) == [key |-> key, obj |-> obj]

BadPickle == "BadPickle"

\* <class>.from_pickle(data, key)
FromPickle(data, key) == IF data.key = key THEN data.obj ELSE BadPickle

(***************************************************************************)
(* Outbound group sessions handed to the store.  A session is its ratchet  *)
(* (key, message index) and its rotation-policy fields.                    *)
(***************************************************************************)
OutboundSessions ==
    { [ratchet |-> <<1, 0>>, max_age |-> 10, max_messages |-> 2,
       creation_time |-> 1, message_count |-> 0],
      [ratchet |-> <<1, 1>>, max_age |-> 10, max_messages |-> 2,
       creation_time |-> 1, message_count |-> 1],
      [ratchet |-> <<2, 0>>, max_age |-> 20, max_messages |-> 3,
       creation_time |-> 2, message_count |-> 0] }

\* MegolmOutboundSession.pickle: the ratchet state alone.
OutboundPickle(session, key) == Pickle(session.ratchet, key)

\* MegolmOutboundSession.from_pickle(data, devices, max_age, max_messages,
\*                                   creation_time, message_count, key)
OutboundFromPickle(data, devices, max_age, max_messages, creation_time, message_count, key) ==
    IF FromPickle(data, key) = BadPickle THEN BadPickle
    ELSE [ratchet |-> FromPickle(data, key), devices |-> devices,
          max_age |-> max_age, max_messages |-> max_messages,
          creation_time |-> creation_time, message_count |-> message_count]

(***************************************************************************)
(* The schema.                                                             *)
(***************************************************************************)
EmptyDb ==
    [accounts |-> {}, olm_sessions |-> {}, megolm_inbound_sessions |-> {},
     megolm_outbound_sessions |-> {}, megolm_outbound_devices |-> {},
     device_keys |-> {}, tracked_users |-> {}, sync_tokens |-> {}]

\* FOREIGN KEY(device_id) REFERENCES accounts(device_id)
HasAccount(db, device_id) == \E a \in db.accounts : a.device_id = device_id

\* FOREIGN KEY(device_id, room_id) REFERENCES megolm_outbound_sessions(device_id, room_id)
HasOutbound(db, device_id, room_id) ==
    \E s \in db.megolm_outbound_sessions :
        s.device_id = device_id /\ s.room_id = room_id

\* ON DELETE CASCADE of megolm_outbound_devices: the rows of the deleted sessions.
CascadeOutbound(db, gone) ==
    [db EXCEPT !.megolm_outbound_devices =
        {d \in @ : ~\E s \in gone :
            s.device_id = d.device_id /\ s.room_id = d.room_id}]

\* ON DELETE CASCADE of every table that references accounts(device_id).
CascadeAccount(db, device_id) ==
    LET gone == {s \in db.megolm_outbound_sessions : s.device_id = device_id}
        db1 == [db EXCEPT
                  !.olm_sessions = {r \in @ : r.device_id # device_id},
                  !.megolm_inbound_sessions = {r \in @ : r.device_id # device_id},
                  !.megolm_outbound_sessions = @ \ gone,
                  !.device_keys = {r \in @ : r.device_id # device_id},
                  !.tracked_users = {r \in @ : r.device_id # device_id},
                  !.sync_tokens = {r \in @ : r.device_id # device_id}]
    IN CascadeOutbound(db1, gone)

(***************************************************************************)
(* Connections and SQLite's locks.  A connection is in one of these        *)
(* states:                                                                 *)
(*   none      no transaction is open (autocommit);                        *)
(*   open      sqlite3 has issued BEGIN before a write statement that then *)
(*             failed for want of the lock; no lock is held;               *)
(*   shared    an open transaction has read: it holds a SHARED lock until  *)
(*             it ends;                                                    *)
(*   reserved  an open transaction has written: it holds the RESERVED      *)
(*             lock, and `work` is the database with its changes;          *)
(*   pending   a writer whose commit failed: it holds the PENDING lock.    *)
(***************************************************************************)
\* instanciate_connection: sqlite3.connect leaves the foreign_keys pragma off.
instanciate_connection == [foreign_keys |-> FALSE, lock |-> "none"]

\* create_tables_if_needed: PRAGMA foreign_keys = ON, on the constructing
\* thread's connection, and a commit.
create_tables_if_needed(connection) == [connection EXCEPT !.foreign_keys = TRUE]

\* CryptoStore.conn: self._conn[current_thread().ident], a defaultdict that
\* creates the calling thread's connection on first use.
conn(c) == IF c \in DOMAIN conns THEN conns
           ELSE [x \in DOMAIN conns \cup {c} |->
                    IF x = c THEN instanciate_connection ELSE conns[x]]

\* conns after connection c went to lock state l.
WithLock(c, l) == [conn(c) EXCEPT ![c].lock = l]

\* Whether connection c enforces foreign keys, and its lock state.
ForeignKeys(c) == conn(c)[c].foreign_keys
Lock(c) == conn(c)[c].lock

Writing(c) == Lock(c) \in {"reserved", "pending"}

\* The connection with uncommitted changes, or None.
Writer == IF \E c \in DOMAIN conns : conns[c].lock \in {"reserved", "pending"}
          THEN CHOOSE c \in DOMAIN conns : conns[c].lock \in {"reserved", "pending"}
          ELSE None

\* The database as a statement on connection c reads it.
View(c) == IF Writing(c) THEN work ELSE disk

\* Another connection holds the write lock: a write statement of c fails with
\* sqlite3.OperationalError (database is locked).
Locked(c) == \E x \in DOMAIN conns \ {c} : conns[x].lock \in {"reserved", "pending"}

\* Another connection holds the PENDING lock and c holds no lock yet: a read
\* statement of c fails with sqlite3.OperationalError (database is locked).
ReadLocked(c) ==
    /\ Lock(c) \in {"none", "open"}
    /\ \E x \in DOMAIN conns \ {c} : conns[x].lock = "pending"

\* Another connection holds a SHARED lock: the commit of a writer fails with
\* sqlite3.OperationalError (database is locked).
CommitLocked(c) == \E x \in DOMAIN conns \ {c} : conns[x].lock = "shared"

\* A call as `last` records it: ret is what it returned and dest the destination
\* collection it was given, as the call left it (both optional values).
Call(op, c, arg, ret, dest, err) ==
    [op |-> op, conn |-> c, arg |-> arg, ret |-> ret, dest |-> dest, err |-> err]

\* The handler's first write statement raised: database is locked.  The BEGIN
\* that sqlite3 issued before it leaves a transaction open.
RaiseLocked(op, c, arg) ==
    /\ last' = Call(op, c, arg, None, None, "locked")
    /\ conns' = WithLock(c, IF Lock(c) = "none" THEN "open" ELSE Lock(c))
    /\ UNCHANGED <<disk, work, otk>>

\* The handler raised sqlite3.IntegrityError (FOREIGN KEY constraint failed):
\* the statement is undone, the transaction it began stays open with the lock.
RaiseIntegrity(op, c, arg) ==
    /\ last' = Call(op, c, arg, None, None, "integrity")
    /\ conns' = WithLock(c, IF Lock(c) = "pending" THEN "pending" ELSE "reserved")
    /\ work' = View(c)
    /\ UNCHANGED <<disk, otk>>

\* self.conn.commit() after the handler's statements left the database as db:
\* it raises while another connection holds a SHARED lock.
Commit(op, c, arg, db) ==
    IF CommitLocked(c)
    THEN /\ last' = Call(op, c, arg, None, None, "commit locked")
         /\ conns' = WithLock(c, "pending")
         /\ work' = db
         /\ UNCHANGED <<disk, otk>>
    ELSE /\ last' = Call(op, c, arg, None, None, "none")
         /\ conns' = WithLock(c, "none")
         /\ disk' = db
         /\ work' = db
         /\ UNCHANGED otk

\* executemany over no rows executes no statement, so it needs no lock; the
\* commit that follows ends the caller's open transaction, if it has one.
CommitNoRows(op, c, arg) ==
    IF Writing(c) THEN Commit(op, c, arg, work)
    ELSE /\ last' = Call(op, c, arg, None, None, "none")
         /\ conns' = WithLock(c, "none")
         /\ UNCHANGED <<disk, work, otk>>

\* The handler returns without commit: its changes stay in the open transaction.
NoCommit(op, c, arg, db) ==
    /\ last' = Call(op, c, arg, None, None, "none")
    /\ conns' = WithLock(c, IF Lock(c) = "pending" THEN "pending" ELSE "reserved")
    /\ work' = db
    /\ UNCHANGED <<disk, otk>>

\* A handler that only reads returns ret, and leaves dest in the destination.
Return(op, c, arg, ret, dest) ==
    IF ReadLocked(c)
    THEN /\ last' = Call(op, c, arg, None, None, "locked")
         /\ conns' = conn(c)
         /\ UNCHANGED <<disk, work, otk>>
    ELSE /\ last' = Call(op, c, arg, ret, dest, "none")
         /\ conns' = WithLock(c, IF Lock(c) = "open" THEN "shared" ELSE Lock(c))
         /\ UNCHANGED <<disk, work, otk>>

(***************************************************************************)
(* Accounts.                                                               *)
(***************************************************************************)
\* INSERT OR IGNORE INTO accounts (device_id, account) VALUES (?,?)
InsertOrIgnoreAccount(db, device_id, data) ==
    IF HasAccount(db, device_id) THEN db
    ELSE [db EXCEPT !.accounts = @ \cup {[device_id |-> device_id, account |-> data]}]

\* UPDATE accounts SET account=? WHERE device_id=?
UpdateAccount(db, device_id, data) ==
    [db EXCEPT !.accounts =
        {IF a.device_id = device_id THEN [a EXCEPT !.account = data] ELSE a : a \in @}]

save_olm_account(c, account) ==
    LET data == Pickle(account, pickle_key(c[1]))
        db1 == InsertOrIgnoreAccount(View(c), c[1], data)
        db2 == UpdateAccount(db1, c[1], data)
    IN IF Locked(c) THEN RaiseLocked("save_olm_account", c, account)
       ELSE Commit("save_olm_account", c, account, db2)

\* SELECT account FROM accounts WHERE device_id=?
SelectAccount(db, device_id) == {a \in db.accounts : a.device_id = device_id}

get_olm_account(c) ==
    LET rows == SelectAccount(View(c), c[1])
    IN Return("get_olm_account", c, None,
              IF rows = {} THEN None
              ELSE Some(FromPickle((CHOOSE a \in rows : TRUE).account,
                                   pickle_key(c[1]))),
              None)

\* DELETE FROM accounts WHERE device_id=?
DeleteAccount(db, device_id, foreign_keys) ==
    LET db1 == [db EXCEPT !.accounts = {a \in @ : a.device_id # device_id}]
    IN IF foreign_keys /\ HasAccount(db, device_id)
       THEN CascadeAccount(db1, device_id) ELSE db1

remove_olm_account(c) ==
    IF Locked(c) THEN RaiseLocked("remove_olm_account", c, None)
    ELSE NoCommit("remove_olm_account", c, None,
                  DeleteAccount(View(c), c[1], ForeignKeys(c)))

(***************************************************************************)
(* Pairwise (Olm) sessions.                                                *)
(***************************************************************************)
\* A table whose key is the peer's curve key would keep one session per peer.
ReplaceOlmSessionByCurveKey(db, row) ==
    [db EXCEPT !.olm_sessions =
        {r \in @ : r.curve_key # row.curve_key} \cup {row}]

\* REPLACE INTO olm_sessions VALUES (?,?,?,?): session_id is the primary key.
ReplaceOlmSession(db, row) ==
    [db EXCEPT !.olm_sessions =
        {r \in @ : r.session_id # row.session_id} \cup {row}]

\* executemany over the rows, in order.
RECURSIVE ReplaceOlmSessions(_, _)
ReplaceOlmSessions(db, rows) ==
    IF rows = <<>> THEN db
    ELSE ReplaceOlmSessions(ReplaceOlmSession(db, Head(rows)), Tail(rows))

\* rows = [(self.device_id, s.id, key, s.pickle(self.pickle_key)) ...]
\* sessions: the (curve key, session) pairs in the order the map yields them.
OlmSessionRows(device_id, sessions) ==
    [i \in 1..Len(sessions) |->
        [device_id |-> device_id, session_id |-> sessions[i][2].id,
         curve_key |-> sessions[i][1],
         session |-> Pickle(sessions[i][2], pickle_key(device_id))]]

save_olm_sessions(c, sessions) ==
    LET rows == OlmSessionRows(c[1], sessions)
    IN IF rows = <<>> THEN CommitNoRows("save_olm_sessions", c, sessions)
       ELSE IF Locked(c) THEN RaiseLocked("save_olm_sessions", c, sessions)
       ELSE IF ForeignKeys(c) /\ ~HasAccount(View(c), c[1])
            THEN RaiseIntegrity("save_olm_sessions", c, sessions)
       ELSE Commit("save_olm_sessions", c, sessions, ReplaceOlmSessions(View(c), rows))

\* The sequences that list every element of S once: the orders a SELECT
\* without ORDER BY may return its rows in.
Orderings(S) ==
    {q \in [1..Cardinality(S) -> S] : \A i, j \in 1..Cardinality(S) : q[i] = q[j] => i = j}

\* SELECT session FROM olm_sessions WHERE device_id=? AND curve_key=?
SelectOlmSessions(db, device_id, curve_key) ==
    {r \in db.olm_sessions : r.device_id = device_id /\ r.curve_key = curve_key}

\* sessions_dict[curve_key] = sessions would forget what the caller held.
AssignDict(sessions_dict, curve_key, sessions) ==
    [k \in DOMAIN sessions_dict \cup {curve_key} |->
        IF k = curve_key THEN sessions ELSE sessions_dict[k]]

\* sessions_dict[curve_key].extend(sessions), sessions_dict a defaultdict(list)
ExtendDict(sessions_dict, curve_key, sessions) ==
    [k \in DOMAIN sessions_dict \cup {curve_key} |->
        IF k = curve_key
        THEN (IF k \in DOMAIN sessions_dict THEN sessions_dict[k] ELSE <<>>) \o sessions
        ELSE sessions_dict[k]]

get_olm_sessions(c, curve_key, sessions_dict) ==
    \E rows \in Orderings(SelectOlmSessions(View(c), c[1], curve_key)) :
        LET sessions == [i \in 1..Len(rows) |->
                            FromPickle(rows[i].session, pickle_key(c[1]))]
        IN Return("get_olm_sessions", c, <<curve_key, sessions_dict>>,
                  IF sessions = <<>> THEN None ELSE Some(sessions),
                  IF sessions_dict = None THEN None
                  ELSE Some(ExtendDict(sessions_dict[1], curve_key, sessions)))

\* SELECT curve_key, session FROM olm_sessions WHERE device_id=?
SelectAllOlmSessions(db, device_id) ==
    {r \in db.olm_sessions : r.device_id = device_id}

\* load_olm_sessions, row by row:
\* sessions[row['curve_key']].append(session), sessions a defaultdict(list)
RECURSIVE AppendRows(_, _, _)
AppendRows(sessions, rows, key) ==
    IF rows = <<>> THEN sessions
    ELSE AppendRows(ExtendDict(sessions, Head(rows).curve_key,
                               <<FromPickle(Head(rows).session, key)>>),
                    Tail(rows), key)

load_olm_sessions(c, sessions) ==
    \E rows \in Orderings(SelectAllOlmSessions(View(c), c[1])) :
        Return("load_olm_sessions", c, sessions, None,
               Some(AppendRows(sessions, rows, pickle_key(c[1]))))

(***************************************************************************)
(* Inbound group (Megolm) sessions.                                        *)
(***************************************************************************)
\* REPLACE INTO megolm_inbound_sessions VALUES (?,?,?,?,?): session_id is the
\* primary key.
ReplaceInboundSession(db, row) ==
    [db EXCEPT !.megolm_inbound_sessions =
        {r \in @ : r.session_id # row.session_id} \cup {row}]

save_inbound_session(c, room_id, curve_key, session) ==
    LET arg == <<room_id, curve_key, session>>
        row == [device_id |-> c[1], session_id |-> session.id, room_id |-> room_id,
                curve_key |-> curve_key,
                session |-> Pickle(session, pickle_key(c[1]))]
    IN IF Locked(c) THEN RaiseLocked("save_inbound_session", c, arg)
       ELSE IF ForeignKeys(c) /\ ~HasAccount(View(c), c[1])
            THEN RaiseIntegrity("save_inbound_session", c, arg)
       ELSE Commit("save_inbound_session", c, arg, ReplaceInboundSession(View(c), row))

\* SELECT session FROM megolm_inbound_sessions WHERE session_id=?
SelectInboundSession(db, device_id, session_id) ==
    {r \in db.megolm_inbound_sessions : r.session_id = session_id}

get_inbound_session(c, session_id) ==
    LET rows == SelectInboundSession(View(c), c[1], session_id)
    IN Return("get_inbound_session", c, session_id,
              IF rows = {} THEN None
              ELSE Some(FromPickle((CHOOSE r \in rows : TRUE).session,
                                   pickle_key(c[1]))),
              None)

(***************************************************************************)
(* Outbound group (Megolm) sessions and the devices they are shared with.  *)
(***************************************************************************)
\* INSERT OR IGNORE INTO megolm_outbound_sessions VALUES (?,?,?,?,?,?,?):
\* (device_id, room_id) is the primary key.
InsertOrIgnoreOutbound(db, device_id, room_id, data, session) ==
    IF HasOutbound(db, device_id, room_id) THEN db
    ELSE [db EXCEPT !.megolm_outbound_sessions = @ \cup
            {[device_id |-> device_id, room_id |-> room_id, session |-> data,
              max_age_s |-> session.max_age, max_messages |-> session.max_messages,
              creation_time |-> session.creation_time,
              message_count |-> session.message_count]}]

\* An UPDATE that set every column of the row from the session handed in.
UpdateOutboundColumns(db, device_id, room_id, data, session) ==
    [db EXCEPT !.megolm_outbound_sessions =
        {IF s.device_id = device_id /\ s.room_id = room_id
         THEN [s EXCEPT !.session = data, !.max_age_s = session.max_age,
                        !.max_messages = session.max_messages,
                        !.creation_time = session.creation_time,
                        !.message_count = session.message_count]
         ELSE s : s \in @}]

\* UPDATE megolm_outbound_sessions SET session=? WHERE device_id=? AND room_id=?
UpdateOutbound(db, device_id, room_id, data, session) ==
    [db EXCEPT !.megolm_outbound_sessions =
        {IF s.device_id = device_id /\ s.room_id = room_id
         THEN [s EXCEPT !.session = data] ELSE s : s \in @}]

save_outbound_session(c, room_id, session) ==
    LET arg == <<room_id, session>>
        data == OutboundPickle(session, pickle_key(c[1]))
        db1 == InsertOrIgnoreOutbound(View(c), c[1], room_id, data, session)
        db2 == UpdateOutbound(db1, c[1], room_id, data, session)
    IN IF Locked(c) THEN RaiseLocked("save_outbound_session", c, arg)
       ELSE IF /\ ForeignKeys(c)
               /\ ~HasOutbound(View(c), c[1], room_id)
               /\ ~HasAccount(View(c), c[1])
            THEN RaiseIntegrity("save_outbound_session", c, arg)
       ELSE Commit("save_outbound_session", c, arg, db2)

\* SELECT * FROM megolm_outbound_sessions WHERE device_id=? AND room_id=?
SelectOutbound(db, device_id, room_id) ==
    {s \in db.megolm_outbound_sessions : s.device_id = device_id /\ s.room_id = room_id}

\* SELECT user_device_id FROM megolm_outbound_devices WHERE device_id=? AND room_id=?
SelectOutboundDevices(db, device_id, room_id) ==
    {d.user_device_id : d \in {x \in db.megolm_outbound_devices :
                                  x.device_id = device_id /\ x.room_id = room_id}}

\* get_outbound_session: the row it fetches and the devices it selects, which
\* are the arguments it hands to from_pickle; None without a row.
OutboundArgs(c, room_id) ==
    LET rows == SelectOutbound(View(c), c[1], room_id)
        row == CHOOSE s \in rows : TRUE
    IN IF rows = {} THEN None
       ELSE Some([session |-> row.session,
                  devices |-> SelectOutboundDevices(View(c), c[1], room_id),
                  max_age |-> row.max_age_s, max_messages |-> row.max_messages,
                  creation_time |-> row.creation_time,
                  message_count |-> row.message_count])

\* What get_outbound_session returns on connection c.
OutboundSessionOf(c, room_id) ==
    LET args == OutboundArgs(c, room_id)
    IN IF args = None THEN None
       ELSE Some(OutboundFromPickle(args[1].session, args[1].devices,
                                    args[1].max_age, args[1].max_messages,
                                    args[1].creation_time, args[1].message_count,
                                    pickle_key(c[1])))

get_outbound_session(c, room_id) ==
    Return("get_outbound_session", c, room_id, OutboundSessionOf(c, room_id), None)

\* DELETE FROM megolm_outbound_sessions WHERE device_id=? AND room_id=?
DeleteOutbound(db, device_id, room_id, foreign_keys) ==
    LET gone == SelectOutbound(db, device_id, room_id)
        db1 == [db EXCEPT !.megolm_outbound_sessions = @ \ gone]
    IN IF foreign_keys THEN CascadeOutbound(db1, gone) ELSE db1

remove_outbound_session(c, room_id) ==
    IF Locked(c) THEN RaiseLocked("remove_outbound_session", c, room_id)
    ELSE Commit("remove_outbound_session", c, room_id,
                DeleteOutbound(View(c), c[1], room_id, ForeignKeys(c)))

\* rows = [(self.device_id, room_id, device_id) for device_id in device_ids]
OutboundDeviceRows(device_id, room_id, device_ids) ==
    {[device_id |-> device_id, room_id |-> room_id, user_device_id |-> d] :
        d \in device_ids}

\* A store that kept only the last list of a room: the rows of the room are
\* replaced by the given ones.
OverwriteOutboundDevices(db, rows) ==
    [db EXCEPT !.megolm_outbound_devices =
        {x \in @ : \A r \in rows :
            x.device_id # r.device_id \/ x.room_id # r.room_id} \cup rows]

\* INSERT OR IGNORE INTO megolm_outbound_devices VALUES (?,?,?), for every row:
\* UNIQUE(device_id, room_id, user_device_id) ignores the rows already there.
InsertOrIgnoreOutboundDevices(db, rows) ==
    [db EXCEPT !.megolm_outbound_devices = @ \cup rows]

save_megolm_outbound_devices(c, room_id, device_ids) ==
    LET arg == <<room_id, device_ids>>
        rows == OutboundDeviceRows(c[1], room_id, device_ids)
    IN IF rows = {} THEN CommitNoRows("save_megolm_outbound_devices", c, arg)
       ELSE IF Locked(c) THEN RaiseLocked("save_megolm_outbound_devices", c, arg)
       ELSE IF /\ ForeignKeys(c)
               /\ ~HasOutbound(View(c), c[1], room_id)
               /\ ~(rows \subseteq View(c).megolm_outbound_devices)
            THEN RaiseIntegrity("save_megolm_outbound_devices", c, arg)
       ELSE Commit("save_megolm_outbound_devices", c, arg,
                   InsertOrIgnoreOutboundDevices(View(c), rows))

(***************************************************************************)
(* Device keys of peers.                                                   *)
(***************************************************************************)
\* The keys of one peer device, as save_device_keys gets them.
DeviceKeys(user_id, user_device_id) ==
    [user_id |-> user_id, user_device_id |-> user_device_id,
     ed_key |-> <<"ed25519", user_id, user_device_id>>,
     curve_key |-> <<"curve25519", user_id, user_device_id>>]

\* REPLACE INTO device_keys VALUES (?,?,?,?,?), for every row:
\* (device_id, user_id, user_device_id) is the primary key.
ReplaceDeviceKeys(db, rows) ==
    [db EXCEPT !.device_keys =
        {r \in @ : ~\E n \in rows : /\ n.device_id = r.device_id
                                     /\ n.user_id = r.user_id
                                     /\ n.user_device_id = r.user_device_id}
        \cup rows]

\* device_keys: a set of DeviceKeys records, one per (user, device).
save_device_keys(c, device_keys) ==
    LET rows == {[device_id |-> c[1], user_id |-> k.user_id,
                  user_device_id |-> k.user_device_id, ed_key |-> k.ed_key,
                  curve_key |-> k.curve_key] : k \in device_keys}
    IN IF rows = {} THEN CommitNoRows("save_device_keys", c, device_keys)
       ELSE IF Locked(c) THEN RaiseLocked("save_device_keys", c, device_keys)
       ELSE IF ForeignKeys(c) /\ ~HasAccount(View(c), c[1])
            THEN RaiseIntegrity("save_device_keys", c, device_keys)
       ELSE Commit("save_device_keys", c, device_keys, ReplaceDeviceKeys(View(c), rows))

\* SELECT * FROM device_keys WHERE device_id=? AND user_id=? [AND user_device_id=?]
\* for every user of user_devices: all of the user's devices when the list
\* given for the user is empty.
SelectDeviceKeys(db, device_id, user_devices) ==
    {r \in db.device_keys :
        /\ r.device_id = device_id
        /\ r.user_id \in DOMAIN user_devices
        /\ \/ user_devices[r.user_id] = {}
           \/ r.user_device_id \in user_devices[r.user_id]}

\* result[row['user_id']][row['user_device_id']] = {'ed25519': ..., 'curve25519': ...}
DeviceKeysResult(rows) ==
    [u \in {r.user_id : r \in rows} |->
        [d \in {r.user_device_id : r \in {x \in rows : x.user_id = u}} |->
            LET r == CHOOSE x \in rows : x.user_id = u /\ x.user_device_id = d
            IN [ed25519 |-> r.ed_key, curve25519 |-> r.curve_key]]]

\* device_keys.update(result)
DictUpdate(device_keys, result) ==
    [u \in DOMAIN device_keys \cup DOMAIN result |->
        IF u \in DOMAIN result THEN result[u] ELSE device_keys[u]]

get_device_keys(c, user_devices, device_keys) ==
    LET result == DeviceKeysResult(SelectDeviceKeys(View(c), c[1], user_devices))
    IN Return("get_device_keys", c, <<user_devices, device_keys>>,
              Some(result),
              IF device_keys # None /\ DOMAIN result # {}
              THEN Some(DictUpdate(device_keys[1], result))
              ELSE device_keys)

(***************************************************************************)
(* Tracked users.                                                          *)
(***************************************************************************)
\* INSERT OR IGNORE INTO tracked_users VALUES (?,?), for every row:
\* UNIQUE(device_id, user_id) ignores the rows already there.
InsertOrIgnoreTrackedUsers(db, rows) ==
    [db EXCEPT !.tracked_users = @ \cup rows]

save_tracked_users(c, user_ids) ==
    LET rows == {[device_id |-> c[1], user_id |-> u] : u \in user_ids}
    IN IF rows = {} THEN CommitNoRows("save_tracked_users", c, user_ids)
       ELSE IF Locked(c) THEN RaiseLocked("save_tracked_users", c, user_ids)
       ELSE IF /\ ForeignKeys(c)
               /\ ~HasAccount(View(c), c[1])
               /\ ~(rows \subseteq View(c).tracked_users)
            THEN RaiseIntegrity("save_tracked_users", c, user_ids)
       ELSE Commit("save_tracked_users", c, user_ids,
                   InsertOrIgnoreTrackedUsers(View(c), rows))

\* DELETE FROM tracked_users WHERE user_id=?, for every user id
DeleteTrackedUsers(db, device_id, user_ids) ==
    [db EXCEPT !.tracked_users = {r \in @ : r.user_id \notin user_ids}]

remove_tracked_users(c, user_ids) ==
    IF user_ids = {} THEN CommitNoRows("remove_tracked_users", c, user_ids)
    ELSE IF Locked(c) THEN RaiseLocked("remove_tracked_users", c, user_ids)
    ELSE Commit("remove_tracked_users", c, user_ids,
                DeleteTrackedUsers(View(c), c[1], user_ids))

\* SELECT user_id FROM tracked_users WHERE device_id=?
SelectTrackedUsers(db, device_id) ==
    {r.user_id : r \in {x \in db.tracked_users : x.device_id = device_id}}

load_tracked_users(c, tracked_users) ==
    LET loaded == tracked_users \cup SelectTrackedUsers(View(c), c[1])
    IN Return("load_tracked_users", c, tracked_users, Some(loaded), Some(loaded))

(***************************************************************************)
(* The sync token.                                                         *)
(***************************************************************************)
\* REPLACE INTO sync_tokens VALUES (?,?): device_id is the primary key.
ReplaceSyncToken(db, device_id, sync_token) ==
    [db EXCEPT !.sync_tokens =
        {r \in @ : r.device_id # device_id}
        \cup {[device_id |-> device_id, token |-> sync_token]}]

save_sync_token(c, sync_token) ==
    IF Locked(c) THEN RaiseLocked("save_sync_token", c, sync_token)
    ELSE IF ForeignKeys(c) /\ ~HasAccount(View(c), c[1])
         THEN RaiseIntegrity("save_sync_token", c, sync_token)
    ELSE Commit("save_sync_token", c, sync_token,
                ReplaceSyncToken(View(c), c[1], sync_token))

\* SELECT token FROM sync_tokens WHERE device_id=?
SelectSyncToken(db, device_id) == {r \in db.sync_tokens : r.device_id = device_id}

get_sync_token(c) ==
    LET rows == SelectSyncToken(View(c), c[1])
    IN Return("get_sync_token", c, None,
              IF rows = {} THEN None ELSE Some((CHOOSE r \in rows : TRUE).token),
              None)

(***************************************************************************)
(* The store: two CryptoStore objects, for device ids A and B, on one      *)
(* database file, both constructed by the main thread.                     *)
(***************************************************************************)
NoCall == Call("init", None, None, None, None, "none")

OtkIdle == [pc |-> "off"]

InitStore ==
    /\ disk = EmptyDb
    /\ work = EmptyDb
    /\ conns = [c \in DeviceIds \X {MainThread} |->
                   create_tables_if_needed(instanciate_connection)]
    /\ last = NoCall
    /\ calls = 0
    /\ otk = OtkIdle

\* The session maps the callers of save_olm_sessions pass.
SessionMaps ==
    {<<<<k, s>>>> : k \in CurveKeys, s \in OlmSessions}
    \cup {<< <<"k1", [id |-> "s1"]>>, <<"k1", [id |-> "s2"]>> >>}

\* How many calls a run of the whole store makes.
MaxCalls == 3

\* One more call of a run of at most MaxCalls calls.
Counted == calls < MaxCalls /\ calls' = calls + 1

\* Any handler of either store, called from either thread.
NextStore ==
    \E c \in Conns :
        \/ Counted /\ \E account \in Accounts : save_olm_account(c, account)
        \/ Counted /\ get_olm_account(c)
        \/ Counted /\ remove_olm_account(c)
        \/ Counted /\ \E sessions \in SessionMaps : save_olm_sessions(c, sessions)
        \/ Counted /\ \E k \in CurveKeys : get_olm_sessions(c, k, None)
        \/ Counted /\ \E s \in InboundSessions : save_inbound_session(c, "r1", "k1", s)
        \/ Counted /\ \E s \in InboundSessions : get_inbound_session(c, s.id)
        \/ Counted /\ \E r \in Rooms, s \in OutboundSessions :
              save_outbound_session(c, r, s)
        \/ Counted /\ \E r \in Rooms : get_outbound_session(c, r)
        \/ Counted /\ \E r \in Rooms : remove_outbound_session(c, r)
        \/ Counted /\ \E r \in Rooms, ds \in SUBSET PeerDevices :
              save_megolm_outbound_devices(c, r, ds)
        \/ Counted /\ save_device_keys(c, {DeviceKeys("u1", "d1")})
        \/ Counted /\ get_device_keys(c, [u \in {"u1"} |-> {}], None)
        \/ Counted /\ \E us \in SUBSET UserIds : save_tracked_users(c, us)
        \/ Counted /\ \E us \in SUBSET UserIds : remove_tracked_users(c, us)
        \/ Counted /\ load_tracked_users(c, {})
        \/ Counted /\ save_sync_token(c, "t1")
        \/ Counted /\ get_sync_token(c)

SpecStore == InitStore /\ [][NextStore]_vars

\* The destinations a caller of get_olm_sessions passes: none, an empty map,
\* a map that holds a session under a key.
SessionDicts ==
    {None, Some(<<>>)}
    \cup {Some([k \in {key} |-> <<[id |-> "s2"]>>]) : key \in CurveKeys}

\* The keys of peer devices a caller saves together.
DeviceKeySets ==
    {{DeviceKeys("u1", "d1")}, {DeviceKeys("u1", "d2")},
     {DeviceKeys("u1", "d1"), DeviceKeys("u2", "d1")}}

\* The devices a caller of get_device_keys asks for: all of a user's, one of
\* a user's, all of two users'.
UserDevices ==
    {[u \in {"u1"} |-> {}], [u \in {"u1"} |-> {"d1"}], [u \in UserIds |-> {}]}

\* The destinations a caller of get_device_keys passes: none, an empty map,
\* a map that holds keys of a device of a user, found earlier.
DeviceKeyDicts ==
    {None, Some(<<>>)}
    \cup {Some([u \in {user} |->
                  [d \in {device} |-> [ed25519 |-> "old", curve25519 |-> "old"]]]) :
            user \in UserIds, device \in PeerDevices}

\* The sessions of peers in store A, saved from both threads and read into
\* the caller's map, in runs of any length.
NextSessions ==
    \E c \in {"A"} \X Threads :
        \/ UNCHANGED calls /\ save_olm_account(c, "acc1")
        \/ UNCHANGED calls /\ \E sessions \in SessionMaps : save_olm_sessions(c, sessions)
        \/ UNCHANGED calls /\ \E k \in CurveKeys, sessions_dict \in SessionDicts :
              get_olm_sessions(c, k, sessions_dict)

SpecSessions == InitStore /\ [][NextSessions]_vars

\* The device keys of peers in store A, saved from both threads and read
\* into the caller's map, in runs of any length.
NextDeviceKeys ==
    \E c \in {"A"} \X Threads :
        \/ UNCHANGED calls /\ save_olm_account(c, "acc1")
        \/ UNCHANGED calls /\ \E device_keys \in DeviceKeySets :
              save_device_keys(c, device_keys)
        \/ UNCHANGED calls /\ \E user_devices \in UserDevices,
                                  device_keys \in DeviceKeyDicts :
              get_device_keys(c, user_devices, device_keys)

SpecDeviceKeys == InitStore /\ [][NextDeviceKeys]_vars

\* The threads of the process: t0 constructs the stores.  A thread gets its
\* identifier when it starts; current_thread().ident of a new thread may be
\* the identifier of a thread that has exited (the threading module: "Thread
\* identifiers may be recycled when a thread exits and another thread is
\* created").
ThreadObjects == {"t0", "t1", "t2", "t3"}

\* __init__ ran on t0: its identifier is the key of the connections made
\* for the tables.  ident: current_thread().ident of the running threads;
\* created_for: the thread a connection of _conn was made for.
InitThreads ==
    /\ disk = EmptyDb
    /\ work = EmptyDb
    /\ conns = [c \in DeviceIds \X {MainThread} |->
                   create_tables_if_needed(instanciate_connection)]
    /\ last = NoCall
    /\ calls = 0
    /\ otk = [pc |-> "threads",
              ident |-> [t \in {"t0"} |-> MainThread],
              exited |-> {},
              created_for |-> [c \in DeviceIds \X {MainThread} |-> "t0"]]

\* Thread t starts, with an identifier no running thread has.
start(t) ==
    /\ t \notin DOMAIN otk.ident \cup otk.exited
    /\ \E i \in Threads \ {otk.ident[x] : x \in DOMAIN otk.ident} :
          otk' = [otk EXCEPT !.ident =
                     [x \in DOMAIN otk.ident \cup {t} |->
                         IF x = t THEN i ELSE otk.ident[x]]]
    /\ UNCHANGED <<disk, work, conns, last, calls>>

\* Thread t ends: its identifier is free again, its connection stays in _conn.
exit(t) ==
    /\ t \in DOMAIN otk.ident
    /\ otk' = [otk EXCEPT !.ident = [x \in DOMAIN otk.ident \ {t} |-> otk.ident[x]],
                          !.exited = @ \cup {t}]
    /\ UNCHANGED <<disk, work, conns, last, calls>>

\* A method of store A running on thread t reads self.conn:
\* self._conn[current_thread().ident], made by instanciate_connection when
\* the identifier is not a key yet.  The call records the thread the
\* connection it got was made for.
UseConn(t) ==
    /\ t \in DOMAIN otk.ident
    /\ LET c == <<"A", otk.ident[t]>>
           made_for == IF c \in DOMAIN conns THEN otk.created_for[c] ELSE t
       IN /\ conns' = conn(c)
          /\ otk' = [otk EXCEPT !.created_for =
                        [x \in DOMAIN conns \cup {c} |->
                            IF x = c THEN made_for ELSE otk.created_for[x]]]
          /\ last' = Call("conn", c, t, Some(made_for), None, "none")
    /\ UNCHANGED <<disk, work, calls>>

NextThreads ==
    \E t \in ThreadObjects :
        \/ start(t)
        \/ exit(t)
        \/ UseConn(t)

SpecThreads == InitThreads /\ [][NextThreads]_vars

(***************************************************************************)
(* The rotation policy of an outbound group session, and the session's way *)
(* through the store.  otk holds the caller's side: the session object it  *)
(* uses for room r1 and the clock.                                         *)
(***************************************************************************)
\* The policies a session is created with: max_age in seconds, max_messages.
Policies == {[max_age |-> 2, max_messages |-> 2]}

\* The last tick of the clock, the number of sessions created and the
\* number of messages a ratchet encrypts.
MaxNow == 3
MaxSessions == 2
MaxIndex == 4

\* MegolmOutboundSession(max_age, max_messages): a new ratchet, no device, no
\* message yet, created now.
MegolmOutboundSession(key, policy, now) ==
    [ratchet |-> <<key, 0>>, devices |-> {}, max_age |-> policy.max_age,
     max_messages |-> policy.max_messages, creation_time |-> now,
     message_count |-> 0]

\* The session needs rotation: its age or its message count reached the limit.
should_rotate(session, now) ==
    \/ session.message_count >= session.max_messages
    \/ now - session.creation_time >= session.max_age

\* MegolmOutboundSession.encrypt: the ratchet advances, one more message.
encrypt(session) ==
    [session EXCEPT !.ratchet = <<@[1], @[2] + 1>>, !.message_count = @ + 1]

InitRotation ==
    /\ disk = EmptyDb
    /\ work = EmptyDb
    /\ conns = [c \in DeviceIds \X {MainThread} |->
                   create_tables_if_needed(instanciate_connection)]
    /\ last = NoCall
    /\ calls = 0
    /\ otk = [pc |-> "session", session |-> None, now |-> 0, created |-> 0]

\* The caller creates the room's first session, or a new one in place of a
\* session that needs rotation.
Create ==
    /\ otk.created < MaxSessions
    /\ \/ otk.session = None
       \/ /\ otk.session # None
          /\ should_rotate(otk.session[1], otk.now)
    /\ \E policy \in Policies :
          otk' = [otk EXCEPT
                    !.session = Some(MegolmOutboundSession(otk.created + 1, policy,
                                                           otk.now)),
                    !.created = @ + 1]
    /\ UNCHANGED <<disk, work, conns, last, calls>>

\* The caller checks the policy before each encryption and encrypts a
\* message with a session that does not need rotation.
Encrypt ==
    /\ otk.session # None
    /\ ~should_rotate(otk.session[1], otk.now)
    /\ otk.session[1].ratchet[2] < MaxIndex
    /\ otk' = [otk EXCEPT !.session = Some(encrypt(otk.session[1]))]
    /\ UNCHANGED <<disk, work, conns, last, calls>>

\* A second passes.
Tick ==
    /\ otk.now < MaxNow
    /\ otk' = [otk EXCEPT !.now = @ + 1]
    /\ UNCHANGED <<disk, work, conns, last, calls>>

\* The caller takes the session get_outbound_session returned as the room's
\* session (as it does when it starts again), having saved the session in
\* the state it last used it in.
Adopt ==
    /\ last.op = "get_outbound_session"
    /\ last.err = "none"
    /\ last.ret # None
    /\ otk.session # None
    /\ last.ret[1].ratchet = otk.session[1].ratchet
    /\ otk' = [otk EXCEPT !.session = last.ret]
    /\ UNCHANGED <<disk, work, conns, last, calls>>

\* The session of room r1 on the constructing thread of store A: created,
\* used, saved, read back, rotated.
NextRotation ==
    \/ UNCHANGED calls /\ save_olm_account(<<"A", MainThread>>, "acc1")
    \/ Create
    \/ Encrypt
    \/ Tick
    \/ UNCHANGED calls /\ otk.session # None
          /\ save_outbound_session(<<"A", MainThread>>, "r1", otk.session[1])
    \/ UNCHANGED calls /\ get_outbound_session(<<"A", MainThread>>, "r1")
    \/ Adopt

SpecRotation == InitRotation /\ [][NextRotation]_vars

\* The map of sessions the caller holds and passes as destination: the one
\* the last read left, or a new empty one.
Held ==
    IF last.op \in {"get_olm_sessions", "load_olm_sessions"} /\ last.dest # None
    THEN last.dest[1] ELSE <<>>

\* The number of sessions a map holds.
HeldSize(sessions) ==
    LET n(k) == IF k \in DOMAIN sessions THEN Len(sessions[k]) ELSE 0
    IN n("k1") + n("k2")

\* The most sessions a map holds when it is passed as a destination.
MaxHeld == 3

\* The sessions of peers in store A, saved from both threads and read, again
\* and again, into the map the caller holds.
NextHeld ==
    \E c \in {"A"} \X Threads :
        \/ UNCHANGED calls /\ save_olm_account(c, "acc1")
        \/ UNCHANGED calls /\ \E sessions \in SessionMaps : save_olm_sessions(c, sessions)
        \/ UNCHANGED calls /\ HeldSize(Held) < MaxHeld
              /\ \E k \in CurveKeys : get_olm_sessions(c, k, Some(Held))
        \/ UNCHANGED calls /\ HeldSize(Held) < MaxHeld
              /\ load_olm_sessions(c, Held)

SpecHeld == InitStore /\ [][NextHeld]_vars

\* The device lists a room's session is shared with, one after the other.
DeviceLists == {{}, {"d1"}, {"d1", "d2"}}

\* The account and the outbound group sessions of store A, used from both
\* threads, in runs of any length.
NextOutbound ==
    \E c \in {"A"} \X Threads :
        \/ UNCHANGED calls /\ save_olm_account(c, "acc1")
        \/ UNCHANGED calls /\ remove_olm_account(c)
        \/ UNCHANGED calls /\ \E r \in Rooms, s \in OutboundSessions :
              save_outbound_session(c, r, s)
        \/ UNCHANGED calls /\ \E r \in Rooms : get_outbound_session(c, r)
        \/ UNCHANGED calls /\ \E r \in Rooms : remove_outbound_session(c, r)
        \/ UNCHANGED calls /\ \E r \in Rooms, ds \in DeviceLists :
              save_megolm_outbound_devices(c, r, ds)

SpecOutbound == InitStore /\ [][NextOutbound]_vars

(***************************************************************************)
(* OlmDevice: the one-time keys of the device and their upload.            *)
(***************************************************************************)
\* The two kinds of one-time keys; a Python dict is a function on the keys
\* it holds, the empty dict is <<>>.
Flavors == {"signed_curve25519", "curve25519"}

Get(d, k, default) == IF k \in DOMAIN d THEN d[k] ELSE default

Max(a, b) == IF a >= b THEN a ELSE b

\* Fractions are pairs <<numerator, denominator>> with a positive denominator.
Fractions == {<<0 - 1, 2>>, <<0, 1>>, <<1, 2>>, <<1, 1>>, <<3, 2>>}

\* The interpreters the package runs on: round() breaks a tie away from zero
\* on Python 2 and to the even neighbour on Python 3.
Pythons == {"py2", "py3"}

\* int(round(n / d)) for n >= 0.
round(n, d, python) ==
    LET q == n \div d
        r == n % d
    IN IF 2 * r < d THEN q
       ELSE IF 2 * r > d THEN q + 1
       ELSE IF python = "py2" THEN q + 1
       ELSE IF q % 2 = 0 THEN q ELSE q + 1

\* The capacities of the key engine's account.
MaxOneTimeKeys == {4, 50}

\* A range check that left the bounds out.
InOpenRange(x) == 0 < x[1] /\ x[1] < x[2]

\* 0 <= x <= 1
InRange(x) == 0 <= x[1] /\ x[1] <= x[2]

\* OlmDevice.__init__: the targets per flavor, or the ValueError.
OlmDevice(max_one_time_keys, signed_otk_proportion, otk_threshold, python) ==
    LET target_keys_number == max_one_time_keys \div 2
        p == signed_otk_proportion
    IN IF ~InRange(p)
       THEN [pc |-> "ValueError", arg |-> "signed_otk_proportion"]
       ELSE IF ~InRange(otk_threshold)
       THEN [pc |-> "ValueError", arg |-> "otk_threshold"]
       ELSE [pc |-> "ready",
             otk_target_counts |->
                 [f \in Flavors |->
                     IF f = "signed_curve25519"
                     THEN round(p[1] * target_keys_number, p[2], python)
                     ELSE round((p[2] - p[1]) * target_keys_number, p[2], python)],
             otk_threshold |-> otk_threshold,
             one_time_key_counts |-> <<>>,
             keys |-> {},
             next_key_id |-> 1,
             server |-> [f \in Flavors |-> {}],
             op |-> "__init__",
             arg |-> None,
             err |-> "none",
             ret |-> None,
             known |-> <<>>,
             asked |-> 0,
             request |-> None,
             offered |-> {},
             triggered |-> FALSE]

\* What the transport does with a request: it answers, it fails before the
\* homeserver got the request, or it fails after the homeserver handled it.
Outcomes == {"ok", "request lost", "response lost"}

\* The one_time_key_counts of a response: the flavors the homeserver holds
\* keys of.
ServerCounts(server) ==
    [f \in {g \in Flavors : server[g] # {}} |-> Cardinality(server[f])]

\* A call starts: nothing asked of the engine, no publish request yet; the
\* key ids of the requests made so far are remembered.
Begin(o, op, arg) ==
    [o EXCEPT !.op = op, !.arg = arg, !.err = "none", !.ret = None,
              !.asked = 0, !.request = None, !.triggered = FALSE,
              !.offered = IF o.request = None THEN o.offered
                          ELSE o.offered \cup o.request[1].signed
                                         \cup o.request[1].unsigned]

\* The exception of a failed request leaves the handler.
Raise(o, stage) == [o EXCEPT !.err = stage, !.ret = None]

\* upload_identity_keys
upload_identity_keys(o, outcome) ==
    LET o1 == Begin(o, "upload_identity_keys", None)
    IN IF outcome = "ok"
       THEN [o1 EXCEPT !.one_time_key_counts = ServerCounts(o.server)]
       ELSE Raise(o1, "device keys")

\* The first n of the key ids in S, in the order the engine lists them
\* (oldest first).
RECURSIVE FirstKeys(_, _)
FirstKeys(S, n) ==
    IF n = 0 \/ S = {} THEN {}
    ELSE LET k == CHOOSE x \in S : \A y \in S : x <= y
         IN {k} \cup FirstKeys(S \ {k}, n - 1)

\* upload_one_time_keys, lines 106-112: the number of keys to create for each
\* flavor that lacks some.
KeysUploaded(otk_target_counts, one_time_key_counts) ==
    LET num_to_create(f) ==
            Max(otk_target_counts[f] - Get(one_time_key_counts, f, 0), 0)
    IN [f \in {g \in Flavors : num_to_create(g) # 0} |-> num_to_create(f)]

\* upload_one_time_keys, lines 115-123: every key the engine holds
\* unpublished goes into the request, the first ones signed.
OneTimeKeys(keys, keys_uploaded) ==
    LET signed == FirstKeys(keys, Get(keys_uploaded, "signed_curve25519", 0))
    IN [signed |-> signed, unsigned |-> keys \ signed]

\* The homeserver stores the keys of a request under their flavor.
Store(server, one_time_keys) ==
    [f \in Flavors |->
        server[f] \cup (IF f = "signed_curve25519" THEN one_time_keys.signed
                        ELSE one_time_keys.unsigned)]

\* A device that marked its keys as published and took the counts as soon as
\* the request was sent, whatever became of it.
PublishMarkingFirst(o, one_time_keys, outcome) ==
    LET sent == [o EXCEPT !.request = Some(one_time_keys), !.keys = {}]
        stored == Store(o.server, one_time_keys)
    IN IF outcome = "ok"
       THEN [sent EXCEPT !.server = stored,
                         !.one_time_key_counts = ServerCounts(stored)]
       ELSE IF outcome = "response lost"
       THEN Raise([sent EXCEPT !.server = stored,
                               !.one_time_key_counts = ServerCounts(stored)],
                  "publish")
       ELSE Raise(sent, "publish")

\* upload_one_time_keys, lines 125-127: the publish request, then the counts
\* of the response, then mark_keys_as_published.
PublishOneTimeKeys(o, one_time_keys, outcome) ==
    LET sent == [o EXCEPT !.request = Some(one_time_keys)]
        stored == Store(o.server, one_time_keys)
    IN IF outcome = "ok"
       THEN [sent EXCEPT !.server = stored,
                         !.one_time_key_counts = ServerCounts(stored),
                         !.keys = {}]
       ELSE IF outcome = "response lost"
       THEN Raise([sent EXCEPT !.server = stored], "publish")
       ELSE Raise(sent, "publish")

\* upload_one_time_keys asks the homeserver for the counts first.
Queries(o, force_update) == o.one_time_key_counts = <<>> \/ force_update

\* upload_one_time_keys from line 103 on.
UploadKeys(o, force_update, outcome) ==
    IF Queries(o, force_update) /\ outcome = "query lost"
    THEN Raise(o, "query")
    ELSE LET counts == IF Queries(o, force_update) THEN ServerCounts(o.server)
                       ELSE o.one_time_key_counts
             keys_uploaded == KeysUploaded(o.otk_target_counts, counts)
             number == Get(keys_uploaded, "signed_curve25519", 0)
                         + Get(keys_uploaded, "curve25519", 0)
             generated == o.next_key_id .. (o.next_key_id + number - 1)
             o1 == [o EXCEPT !.one_time_key_counts = counts,
                             !.known = counts,
                             !.asked = number,
                             !.keys = o.keys \cup generated,
                             !.next_key_id = o.next_key_id + number]
             o2 == PublishOneTimeKeys(o1, OneTimeKeys(o1.keys, keys_uploaded),
                                      outcome)
         IN IF o2.err = "none" THEN [o2 EXCEPT !.ret = Some(keys_uploaded)]
            ELSE o2

\* upload_one_time_keys
upload_one_time_keys(o, force_update, outcome) ==
    UploadKeys(Begin(o, "upload_one_time_keys", force_update), force_update,
               outcome)

\* A device that uploaded at the threshold as well as below it.
should_upload_at_threshold(count, otk_target_counts, otk_threshold) ==
    IF count = <<>> THEN TRUE
    ELSE \E key_type \in Flavors :
            Get(count, key_type, 0) * otk_threshold[2]
                <= otk_target_counts[key_type] * otk_threshold[1]

\* update_one_time_key_counts, lines 140-146.
should_upload(count, otk_target_counts, otk_threshold) ==
    IF count = <<>> THEN TRUE
    ELSE \E key_type \in Flavors :
            Get(count, key_type, 0) * otk_threshold[2]
                < otk_target_counts[key_type] * otk_threshold[1]

\* update_one_time_key_counts
update_one_time_key_counts(o, count, outcome) ==
    LET o1 == [Begin(o, "update_one_time_key_counts", count)
                  EXCEPT !.one_time_key_counts = count]
    IN IF should_upload(count, o.otk_target_counts, o.otk_threshold)
       THEN UploadKeys([o1 EXCEPT !.triggered = TRUE], FALSE, outcome)
       ELSE o1

\* The requests a call makes before it ends: a call that makes none ends one
\* way only, a call that does not ask for the counts cannot lose that request.
Transport(queries, publishes) ==
    IF ~publishes THEN {"ok"}
    ELSE IF queries THEN Outcomes \cup {"query lost"}
    ELSE Outcomes

\* The counts a sync response can carry.
Counts ==
    {<<>>,
     [f \in {"signed_curve25519"} |-> 0],
     [f \in {"signed_curve25519"} |-> 10],
     [f \in {"signed_curve25519"} |-> 13],
     [f \in Flavors |-> 1],
     [f \in Flavors |-> IF f = "curve25519" THEN 0 ELSE 13],
     [f \in Flavors |-> 25]}

InitOtk ==
    /\ disk = EmptyDb
    /\ work = EmptyDb
    /\ conns = [c \in {} |-> instanciate_connection]
    /\ last = NoCall
    /\ calls = 0
    /\ otk \in {OlmDevice(m, p, t, py) :
                  m \in MaxOneTimeKeys, p \in Fractions, t \in Fractions,
                  py \in Pythons}

MaxOtkCalls == 3

CountedOtk ==
    /\ otk.pc = "ready"
    /\ calls < MaxOtkCalls
    /\ calls' = calls + 1
    /\ UNCHANGED <<disk, work, conns, last>>

NextOtk ==
    \/ CountedOtk /\ \E outcome \in {"ok", "request lost"} :
          otk' = upload_identity_keys(otk, outcome)
    \/ CountedOtk /\ \E force_update \in BOOLEAN :
          \E outcome \in Transport(Queries(otk, force_update), TRUE) :
              otk' = upload_one_time_keys(otk, force_update, outcome)
    \/ CountedOtk /\ \E count \in Counts :
          \E outcome \in Transport(count = <<>>,
                  should_upload(count, otk.otk_target_counts, otk.otk_threshold)) :
              otk' = update_one_time_key_counts(otk, count, outcome)

SpecOtk == InitOtk /\ [][NextOtk]_vars

\* The capacities an engine could have: even ones, odd ones, and the 100 of
\* libolm.
Capacities == {4, 5, 7, 50, 100}

\* The proportions of signed keys a caller configures: binary fractions,
\* which a float holds exactly, in and out of the range.
Proportions == Fractions \cup {<<1, 4>>, <<3, 4>>}

\* The arguments of a construction that has not run yet.
InitDevice ==
    /\ disk = EmptyDb
    /\ work = EmptyDb
    /\ conns = [c \in {} |-> instanciate_connection]
    /\ last = NoCall
    /\ calls = 0
    /\ otk \in {[pc |-> "new", max_one_time_keys |-> m, signed_otk_proportion |-> p,
                  otk_threshold |-> t, python |-> py] :
                    m \in Capacities, p \in Proportions, t \in Fractions,
                    py \in Pythons}

\* OlmDevice(api, user_id, device_id, signed_otk_proportion, otk_threshold)
\* runs: the device, or the ValueError it raised.
NextDevice ==
    /\ otk.pc = "new"
    /\ otk' = OlmDevice(otk.max_one_time_keys, otk.signed_otk_proportion,
                         otk.otk_threshold, otk.python)
    /\ last' = Call("__init__", None,
                     <<otk.max_one_time_keys, otk.signed_otk_proportion,
                       otk.otk_threshold, otk.python>>,
                     None, None,
                     IF otk'.pc = "ValueError" THEN "ValueError" ELSE "none")
    /\ UNCHANGED <<disk, work, conns, calls>>

SpecDevice == InitDevice /\ [][NextDevice]_vars

(***************************************************************************)
(* OlmDevice: signing and verifying JSON objects.  A JSON object is a      *)
(* function on the keys it holds; the empty object is <<>>.                *)
(***************************************************************************)
\* json.pop(key, default), as an optional value and as what is left.
Popped(json, key) == IF key \in DOMAIN json THEN Some(json[key]) ELSE None

Pop(json, key) == [k \in DOMAIN json \ {key} |-> json[k]]

\* json[key] = value
Put(json, key, value) ==
    [k \in DOMAIN json \cup {key} |-> IF k = key THEN value ELSE json[k]]

\* The keys of the objects signed here, in the order canonical JSON sorts them.
KeyOrder == <<"device_id", "key", "signatures", "unsigned">>

\* encode_canonical_json: the members of the object, sorted by key.
encode_canonical_json(json) ==
    LET keys == SelectSeq(KeyOrder, LAMBDA k : k \in DOMAIN json)
    IN [i \in 1..Len(keys) |-> <<keys[i], json[keys[i]]>>]

\* The device that signs: its user, its device id and its Olm account.
SignerUser == "@alice"
SignerDevice == "DEV"
SignerAccount == "alice_account"

\* olm_account.identity_keys['ed25519'] of an account.
Ed25519Key(account) == <<"ed25519", account>>

\* olm_account.sign(message): a signature is good for the message it was made
\* for and the key of the account that made it, and for nothing else.
Sign(account, message) == [signer |-> account, message |-> message]

\* olm.ed25519_verify(user_key, message, signature): whether it returns
\* (TRUE) or raises OlmVerifyError (FALSE).
ed25519_verify(user_key, message, signature) ==
    /\ Ed25519Key(signature.signer) = user_key
    /\ signature.message = message

\* 'ed25519:{}'.format(device_id)
KeyId(device_id) == <<"ed25519", device_id>>

\* Python's truth value of what json.pop('unsigned', None) gave: None and
\* the empty object are false.
Truthy(unsigned) == unsigned # None /\ unsigned[1] # <<>>

\* signatures.setdefault(user_id, {})[key_id] = signature_base64
SetSignature(signatures, user_id, key_id, signature_base64) ==
    Put(signatures, user_id,
        Put(IF user_id \in DOMAIN signatures THEN signatures[user_id] ELSE <<>>,
            key_id, signature_base64))

\* A device that signed the object with its `unsigned` member left in.
SigningInputWithUnsigned(json) == encode_canonical_json(Pop(json, "signatures"))

\* sign_json, lines 166-169: what the signature is made over.
SigningInput(json) == encode_canonical_json(Pop(Pop(json, "signatures"), "unsigned"))

\* sign_json: the object as the call leaves it, which it also returns.
sign_json(json) ==
    LET popped == Popped(json, "signatures")
        signatures == IF popped = None THEN <<>> ELSE popped[1]
        unsigned == Popped(json, "unsigned")
        rest == Pop(Pop(json, "signatures"), "unsigned")
        signature_base64 == Sign(SignerAccount, SigningInput(json))
        signed == Put(rest, "signatures",
                      SetSignature(signatures, SignerUser, KeyId(SignerDevice),
                                   signature_base64))
    IN IF Truthy(unsigned) THEN Put(signed, "unsigned", unsigned[1]) ELSE signed

\* signatures[user_id][key_id] of an object, if it is there.
Entry(json, user_id, device_id) ==
    IF /\ "signatures" \in DOMAIN json
       /\ user_id \in DOMAIN json.signatures
       /\ KeyId(device_id) \in DOMAIN json.signatures[user_id]
    THEN Some(json.signatures[user_id][KeyId(device_id)])
    ELSE None

\* A device that verified the signature over the object with its `unsigned`
\* member left in.
verify_json_over_unsigned(json, user_key, user_id, device_id) ==
    IF Entry(json, user_id, device_id) = None
    THEN [json |-> json, ret |-> FALSE, err |-> "none"]
    ELSE [json |-> json,
          ret |-> ed25519_verify(user_key,
                                 encode_canonical_json(Pop(json, "signatures")),
                                 Entry(json, user_id, device_id)[1]),
          err |-> "none"]

\* A device that let the KeyError of a missing signature entry out.
verify_json_raising(json, user_key, user_id, device_id) ==
    IF "signatures" \notin DOMAIN json
    THEN [json |-> json, ret |-> FALSE, err |-> "none"]
    ELSE IF Entry(json, user_id, device_id) = None
    THEN [json |-> Pop(json, "signatures"), ret |-> FALSE, err |-> "KeyError"]
    ELSE [json |-> json,
          ret |-> ed25519_verify(user_key, SigningInput(json),
                                 Entry(json, user_id, device_id)[1]),
          err |-> "none"]

\* verify_json: the object as the call leaves it, what it returns, and the
\* exception that leaves it, if any ("none": the KeyError and OlmVerifyError
\* it catches do not).
verify_json(json, user_key, user_id, device_id) ==
    IF "signatures" \notin DOMAIN json
    THEN [json |-> json, ret |-> FALSE, err |-> "none"]
    ELSE LET signatures == json.signatures
             key_id == KeyId(device_id)
             j1 == Pop(json, "signatures")
         IN IF user_id \notin DOMAIN signatures
               \/ key_id \notin DOMAIN signatures[user_id]
            THEN [json |-> Put(j1, "signatures", signatures), ret |-> FALSE,
                  err |-> "none"]
            ELSE LET unsigned == Popped(j1, "unsigned")
                     j2 == Pop(j1, "unsigned")
                     success == ed25519_verify(user_key, encode_canonical_json(j2),
                                               signatures[user_id][key_id])
                     j3 == Put(j2, "signatures", signatures)
                 IN [json |-> IF Truthy(unsigned) THEN Put(j3, "unsigned", unsigned[1])
                              ELSE j3,
                     ret |-> success,
                     err |-> "none"]

\* The signed members of the objects: a key, with or without a device id.
Bodies ==
    {[k \in {"key"} |-> v] : v \in {"v1", "v2"}}
    \cup {[k \in {"device_id", "key"} |-> IF k = "key" THEN v ELSE "DEV"] :
            v \in {"v1", "v2"}}

\* The `unsigned` member: none, an empty object, or one of two objects.
Unsigneds == {None, Some(<<>>), Some([age |-> 1]), Some([age |-> 2])}

\* The signatures a peer may have left under the signer's key id: those of the
\* signer's account and of another account, over any body.
SignatureValues ==
    {Sign(a, encode_canonical_json(b)) : a \in {SignerAccount, "eve_account"}, b \in Bodies}

\* Optional members collected into an object.
Members(pairs) ==
    [k \in {p[1] : p \in {q \in pairs : q[2] # None}} |->
        (CHOOSE p \in pairs : p[1] = k)[2][1]]

\* The `signatures` member: none, or an object with any of an entry of the
\* signer's key id, an entry of another key of the signer, an entry of
\* another user.
SignatureMaps ==
    {None} \cup
    {Some(Members({<<SignerUser,
                     IF own = None /\ other = None THEN None
                     ELSE Some(Members({<<KeyId(SignerDevice), own>>,
                                        <<KeyId("OTHER"), other>>}))>>,
                   <<"@bob", bob>>})) :
        own \in {None} \cup {Some(s) : s \in SignatureValues},
        other \in {None, Some(Sign("alice_account", <<>>))},
        bob \in {None, Some([k \in {KeyId("BOBDEV")} |-> Sign("bob_account", <<>>)])}}

\* The objects handed to sign_json and verify_json.
Payloads ==
    {[k \in DOMAIN b \cup {m \in {"signatures", "unsigned"} :
                              (IF m = "signatures" THEN s ELSE u) # None} |->
        IF k = "signatures" THEN s[1] ELSE IF k = "unsigned" THEN u[1] ELSE b[k]] :
        b \in Bodies, s \in SignatureMaps, u \in Unsigneds}

InitJson ==
    /\ disk = EmptyDb
    /\ work = EmptyDb
    /\ conns = [c \in {} |-> instanciate_connection]
    /\ last = NoCall
    /\ calls = 0
    /\ otk \in {[pc |-> "json", json |-> p] : p \in Payloads}

\* A call on the object the device holds: the call mutates it in place.
JsonCall(op, args, ret, json, err) ==
    /\ otk.pc = "json"
    /\ last' = Call(op, None, <<otk.json>> \o args, Some(ret), Some(json), err)
    /\ otk' = [otk EXCEPT !.json = json]
    /\ UNCHANGED <<disk, work, conns, calls>>

NextJson ==
    \/ JsonCall("sign_json", <<>>, sign_json(otk.json), sign_json(otk.json), "none")
    \/ \E user_key \in {Ed25519Key(SignerAccount), Ed25519Key("eve_account")},
          user_id \in {SignerUser, "@bob"}, device_id \in {SignerDevice, "OTHER"} :
          LET v == verify_json(otk.json, user_key, user_id, device_id)
          IN JsonCall("verify_json", <<user_key, user_id, device_id>>, v.ret, v.json,
                      v.err)

SpecJson == InitJson /\ [][NextJson]_vars

(***************************************************************************)
(* Properties of the store.                                                *)
(***************************************************************************)
\* What the reads of device c[1] find through connection c: nothing.
NothingStored(c) ==
    LET db == View(c)
        d == c[1]
    IN /\ \A k \in CurveKeys : SelectOlmSessions(db, d, k) = {}
       /\ \A r \in db.megolm_inbound_sessions :
             r.device_id = d => SelectInboundSession(db, d, r.session_id) = {}
       /\ SelectDeviceKeys(db, d, [u \in UserIds |-> {}]) = {}
       /\ SelectTrackedUsers(db, d) = {}
       /\ \A s \in db.megolm_outbound_sessions : s.device_id # d
       /\ \A x \in db.megolm_outbound_devices : x.device_id # d

\* C1: once remove_olm_account has returned, get_olm_sessions (any peer key),
\* get_inbound_session (any session of the device), get_device_keys and
\* load_tracked_users of that device, made through the caller's connection,
\* return absent/empty, and no outbound session or shared-device row of the
\* device remains.
C1_CascadeOnRemove ==
    (last.op = "remove_olm_account" /\ last.err = "none")
        => NothingStored(last.conn)

\* C2: once save_outbound_session has returned, get_outbound_session of the
\* room builds its session from what was saved: the pickled ratchet state, the
\* max age, the max message count, the creation time and the message count.
C2_UpsertPersistsFields ==
    (last.op = "save_outbound_session" /\ last.err = "none")
        => LET got == OutboundArgs(last.conn, last.arg[1])
               s == last.arg[2]
           IN /\ got # None
              /\ got[1].session = OutboundPickle(s, pickle_key(last.conn[1]))
              /\ got[1].max_age = s.max_age
              /\ got[1].max_messages = s.max_messages
              /\ got[1].creation_time = s.creation_time
              /\ got[1].message_count = s.message_count

\* What get_outbound_session builds its session from when s was saved and
\* shared with no device.
Fresh(s, key) ==
    Some([session |-> OutboundPickle(s, key), devices |-> {},
          max_age |-> s.max_age, max_messages |-> s.max_messages,
          creation_time |-> s.creation_time, message_count |-> s.message_count])

\* C3: a save_outbound_session of a brand-new session (message_count 0, a new
\* ratchet) that supersedes the stored one, by saving over it or after
\* remove_outbound_session, makes get_outbound_session build the new session
\* with no shared device, the new creation time and message_count 0.
C3_RotationReplaces ==
    [][\A c \in Conns, r \in Rooms, s \in OutboundSessions :
        ( /\ last'.op = "save_outbound_session"
          /\ last'.err = "none"
          /\ last'.conn = c
          /\ last'.arg = <<r, s>>
          /\ s.message_count = 0
          /\ \/ /\ OutboundArgs(c, r) # None
                /\ OutboundArgs(c, r)[1].session # OutboundPickle(s, pickle_key(c[1]))
             \/ /\ last.op = "remove_outbound_session"
                /\ last.err = "none"
                /\ last.conn[1] = c[1]
                /\ last.arg = r )
        => OutboundArgs(c, r)' = Fresh(s, pickle_key(c[1]))]_vars

\* The shared devices get_outbound_session gives the session it returns on
\* connection c.
SharedDevices(c, r) == OutboundArgs(c, r)[1].devices

\* C4: for a stored outbound session, save_megolm_outbound_devices and
\* save_outbound_session never take a device out of the shared-device set
\* that get_outbound_session returns, and a save_megolm_outbound_devices that
\* went through leaves exactly the union of the set and the devices given.
C4_SharingMonotonic ==
    [][\A c \in Conns, r \in Rooms :
        ( /\ last'.op \in {"save_megolm_outbound_devices", "save_outbound_session"}
          /\ last'.conn = c
          /\ last'.arg[1] = r
          /\ OutboundArgs(c, r) # None )
        => /\ OutboundArgs(c, r)' # None
           /\ SharedDevices(c, r) \subseteq SharedDevices(c, r)'
           /\ (last'.op = "save_megolm_outbound_devices"
                 /\ last'.err \in {"none", "commit locked"})
              => SharedDevices(c, r)' = SharedDevices(c, r) \cup last'.arg[2]]_vars

\* C4's case: the session was shared with d1 and d2, a later
\* save_megolm_outbound_devices of d1 alone returned, and the session is
\* still shared with both.
C4_Witness ==
    /\ last.op = "save_megolm_outbound_devices"
    /\ last.err = "none"
    /\ last.arg = <<"r1", {"d1"}>>
    /\ OutboundArgs(last.conn, "r1") # None
    /\ SharedDevices(last.conn, "r1") = {"d1", "d2"}

\* The rows of db that belong to other devices than d.
OtherRows(db, d) == [t \in DOMAIN db |-> {r \in db[t] : r.device_id # d}]

\* C5: a call on the store of one device id leaves every row of another
\* device id as it was, and returns no row of another device id.
C5_DeviceScoped ==
    [][\A c \in Conns :
        last'.conn = c
        => /\ OtherRows(View(c), c[1]) = OtherRows(View(c)', c[1])
           /\ (last'.op = "get_inbound_session" /\ last'.ret # None)
              => \E r \in View(c).megolm_inbound_sessions :
                    r.device_id = c[1] /\ r.session_id = last'.arg]_vars

\* The handlers that change the database.
Mutating ==
    {"save_olm_account", "remove_olm_account", "save_olm_sessions",
     "save_inbound_session", "save_outbound_session", "remove_outbound_session",
     "save_megolm_outbound_devices", "save_device_keys", "save_tracked_users",
     "remove_tracked_users", "save_sync_token"}

\* C6: once a mutating handler has returned, the caller's connection holds no
\* uncommitted change and every other connection reads what the caller reads.
C6_CommitsImmediately ==
    (last.op \in Mutating /\ last.err = "none")
        => /\ ~Writing(last.conn)
           /\ \A c \in Conns : View(c) = View(last.conn)

(***************************************************************************)
(* Properties of the one-time keys.                                        *)
(***************************************************************************)
\* The key ids of a publish request.
KeyIds(one_time_keys) == one_time_keys.signed \cup one_time_keys.unsigned

\* C7: in every call of upload_one_time_keys that reaches its publish
\* request, with to_create[f] = max(target[f] - known_count[f], 0), the engine
\* was asked for sum(to_create) keys, the request holds to_create of the signed
\* flavor signed keys and to_create of the unsigned flavor unsigned keys, the
\* call returns to_create[f] for exactly the flavors with to_create[f] > 0,
\* and an empty result goes with a request that holds no key.
C7_UploadsWhatIsMissing ==
    (otk.pc = "ready" /\ otk.request # None)
        => LET to_create(f) ==
                   Max(otk.otk_target_counts[f] - Get(otk.known, f, 0), 0)
               one_time_keys == otk.request[1]
           IN /\ otk.asked = to_create("signed_curve25519") + to_create("curve25519")
              /\ Cardinality(one_time_keys.signed) = to_create("signed_curve25519")
              /\ Cardinality(one_time_keys.unsigned) = to_create("curve25519")
              /\ otk.err = "none"
                 => /\ DOMAIN otk.ret[1] = {f \in Flavors : to_create(f) > 0}
                    /\ \A f \in DOMAIN otk.ret[1] : otk.ret[1][f] = to_create(f)
                    /\ otk.ret[1] = <<>> => KeyIds(one_time_keys) = {}

\* C8: no key id of a publish request was in an earlier publish request.
C8_NeverOfferedTwice ==
    (otk.pc = "ready" /\ otk.request # None)
        => KeyIds(otk.request[1]) \cap otk.offered = {}

C10_FailurePropagates ==
    [][(otk'.pc = "ready" /\ otk'.err # "none")
        => LET given == IF otk'.op = "update_one_time_key_counts" THEN otk'.arg
                        ELSE otk.one_time_key_counts
               queried == \/ given = <<>>
                          \/ /\ otk'.op = "upload_one_time_keys"
                             /\ otk'.arg = TRUE
           IN /\ otk'.ret = None
              /\ otk.keys \subseteq otk'.keys
              /\ otk'.request # None => KeyIds(otk'.request[1]) \subseteq otk'.keys
              /\ otk'.err = "publish" <=> otk'.request # None
              /\ otk'.one_time_key_counts =
                    IF otk'.err = "publish" /\ queried
                    THEN ServerCounts(otk.server) ELSE given]_vars

\* C10's case: the publish request reached the homeserver, which holds the
\* keys, the response was lost and the call ended in the error.
C10_Witness ==
    /\ otk.pc = "ready"
    /\ otk.err = "publish"
    /\ otk.request # None
    /\ otk.request[1].signed # {}
    /\ otk.request[1].signed \subseteq otk.server["signed_curve25519"]
    /\ otk.request[1].signed \subseteq otk.keys
    /\ otk.one_time_key_counts # ServerCounts(otk.server)

(***************************************************************************)
(* Properties of signing and verifying.                                    *)
(***************************************************************************)
\* C11: verify_json leaves the object as it was given, whatever it returns.
C11_VerifyLeavesPayload ==
    last.op = "verify_json" => last.dest[1] = last.arg[1]

\* The signed members of an object, and the object with other signed members.
Body(json) == Pop(Pop(json, "signatures"), "unsigned")

WithBody(json, body) ==
    [k \in (DOMAIN json \cap {"signatures", "unsigned"}) \cup DOMAIN body |->
        IF k \in DOMAIN body THEN body[k] ELSE json[k]]

\* The object with another signature in the signer's entry.
WithSignature(json, signature) ==
    Put(json, "signatures",
        SetSignature(json.signatures, SignerUser, KeyId(SignerDevice), signature))

\* verify_json with the signer's public key, user id and device id.
Verifies(json) ==
    verify_json(json, Ed25519Key(SignerAccount), SignerUser, SignerDevice).ret

\* C12: an object without `signatures` that sign_json signed verifies with
\* the signer's public key, user id and device id; with any other signature
\* in the signer's entry, or with any signed member changed, added or taken
\* away, it does not.
C12_SignThenVerify ==
    (last.op = "sign_json" /\ "signatures" \notin DOMAIN last.arg[1])
        => /\ Verifies(otk.json)
           /\ \A b \in Bodies \ {Body(otk.json)} : ~Verifies(WithBody(otk.json, b))
           /\ \A s \in SignatureValues :
                 Some(s) # Entry(otk.json, SignerUser, SignerDevice)
                     => ~Verifies(WithSignature(otk.json, s))

\* C12's case: an object with a non-empty `unsigned` and no `signatures` was
\* signed and holds the signer's signature.
C12_Witness ==
    /\ last.op = "sign_json"
    /\ DOMAIN last.arg[1] = {"device_id", "key", "unsigned"}
    /\ last.arg[1].unsigned # <<>>
    /\ Entry(otk.json, SignerUser, SignerDevice) # None
    /\ "unsigned" \in DOMAIN otk.json

\* C13: sign_json sets signatures[user_id][key_id] of the signer and nothing
\* else: every other signature entry and every other member, `unsigned`
\* included when it was there (empty or not), is as before, and the object
\* returned is the object given.
C13_SignTouchesOneEntry ==
    last.op = "sign_json"
        => LET before == last.arg[1]
               after == last.dest[1]
               old == IF "signatures" \in DOMAIN before THEN before.signatures
                      ELSE <<>>
           IN /\ last.ret = last.dest
              /\ DOMAIN after = DOMAIN before \cup {"signatures"}
              /\ \A k \in DOMAIN before \ {"signatures"} : after[k] = before[k]
              /\ DOMAIN after.signatures = DOMAIN old \cup {SignerUser}
              /\ \A u \in DOMAIN old \ {SignerUser} : after.signatures[u] = old[u]
              /\ SignerUser \in DOMAIN old
                 => /\ DOMAIN after.signatures[SignerUser]
                          = DOMAIN old[SignerUser] \cup {KeyId(SignerDevice)}
                    /\ \A k \in DOMAIN old[SignerUser] \ {KeyId(SignerDevice)} :
                          after.signatures[SignerUser][k] = old[SignerUser][k]

\* C14: objects that differ only in `unsigned` or in the signature entries of
\* other signers are signed over the same input and get the same signature
\* from sign_json, and verify_json returns the same for them.
C14_UnsignedNotCovered ==
    /\ last.op = "sign_json"
       => \A q \in Payloads :
             Body(q) = Body(last.arg[1])
                 => /\ SigningInput(q) = SigningInput(last.arg[1])
                    /\ Entry(sign_json(q), SignerUser, SignerDevice)
                          = Entry(otk.json, SignerUser, SignerDevice)
    /\ last.op = "verify_json"
       => \A q \in Payloads :
             ( /\ Body(q) = Body(last.arg[1])
               /\ Entry(q, last.arg[3], last.arg[4])
                     = Entry(last.arg[1], last.arg[3], last.arg[4]) )
                 => verify_json(q, last.arg[2], last.arg[3], last.arg[4]).ret
                        = last.ret[1]

\* C14's case: an object with `unsigned` and an entry of another user's
\* signature verified.
C14_Witness ==
    /\ last.op = "verify_json"
    /\ last.ret = Some(TRUE)
    /\ "unsigned" \in DOMAIN last.arg[1]
    /\ last.arg[1].unsigned # <<>>
    /\ "@bob" \in DOMAIN last.arg[1].signatures

\* C15: verify_json raises nothing; it returns false for an object without
\* `signatures`, for signatures without an entry of the user or of the key id
\* of the device, and for a signature that is not one of the key over the
\* object.
C15_UnverifiableIsFalse ==
    last.op = "verify_json"
        => LET json == last.arg[1]
               entry == Entry(json, last.arg[3], last.arg[4])
           IN /\ last.err = "none"
              /\ last.ret[1] \in BOOLEAN
              /\ "signatures" \notin DOMAIN json => last.ret[1] = FALSE
              /\ entry = None => last.ret[1] = FALSE
              /\ (entry # None
                    /\ ~ed25519_verify(last.arg[2], SigningInput(json), entry[1]))
                 => last.ret[1] = FALSE

\* C15's case: signatures that hold an entry of another key of the user only
\* were given, and false came back.
C15_Witness ==
    /\ last.op = "verify_json"
    /\ last.err = "none"
    /\ last.ret = Some(FALSE)
    /\ "signatures" \in DOMAIN last.arg[1]
    /\ last.arg[3] \in DOMAIN last.arg[1].signatures
    /\ Entry(last.arg[1], last.arg[3], last.arg[4]) = None

(***************************************************************************)
(* Properties of the store's round trips.                                  *)
(***************************************************************************)
\* C17: get_olm_account returns the account of the save_olm_account that
\* came right before it on the device, and returns None right after a
\* remove_olm_account of the device and when nothing was ever called.
C17_AccountRoundTrip ==
    [][(last'.op = "get_olm_account" /\ last'.err = "none")
        => /\ last.op = "init" => last'.ret = None
           /\ (last.op = "save_olm_account" /\ last.err = "none"
                 /\ last.conn[1] = last'.conn[1])
              => last'.ret = Some(last.arg)
           /\ (last.op = "remove_olm_account" /\ last.err = "none"
                 /\ last.conn[1] = last'.conn[1])
              => last'.ret = None]_vars

\* What load_tracked_users into an empty set yields on connection c.
Tracked(c) == SelectTrackedUsers(View(c), c[1])

\* C20: save_tracked_users adds the given users to those load_tracked_users
\* yields on the device and remove_tracked_users takes the given users out of
\* them, each user being there once or not at all; the users another device
\* tracks are not touched.
C20_TrackedUsersAreASet ==
    [][\A c \in Conns :
        (last'.conn = c /\ last'.err = "none")
        => /\ last'.op = "save_tracked_users"
              => Tracked(c)' = Tracked(c) \cup last'.arg
           /\ last'.op = "remove_tracked_users"
              => Tracked(c)' = Tracked(c) \ last'.arg
           /\ last'.op \in {"save_tracked_users", "remove_tracked_users"}
              => \A x \in Conns : x[1] # c[1] => Tracked(x)' = Tracked(x)]_vars

(***************************************************************************)
(* Properties of the caller's maps.                                        *)
(***************************************************************************)
\* C16: get_device_keys merges into the destination it is given: an entry
\* (user, device) the destination held before the call is still there after
\* it, with the stored keys when a fetched row has the same (user, device)
\* and with the keys it had otherwise; so the other devices of a fetched user
\* are kept.
C16_DeviceKeysMergeAdditive ==
    (last.op = "get_device_keys" /\ last.err = "none" /\ last.arg[2] # None)
    => LET before == last.arg[2][1]
           after == last.dest[1]
           fetched == last.ret[1]
       IN \A u \in DOMAIN before : \A d \in DOMAIN before[u] :
            /\ u \in DOMAIN after
            /\ d \in DOMAIN after[u]
            /\ after[u][d] = IF u \in DOMAIN fetched /\ d \in DOMAIN fetched[u]
                              THEN fetched[u][d] ELSE before[u][d]

\* The sessions get_olm_sessions finds for a peer's curve key on connection c.
Stored(c, curve_key) ==
    {FromPickle(r.session, pickle_key(c[1])) :
        r \in SelectOlmSessions(View(c), c[1], curve_key)}

\* The sessions of a map given to save_olm_sessions: all, and under a key.
Saved(sessions) == {sessions[i][2] : i \in 1..Len(sessions)}

SavedUnder(sessions, curve_key) ==
    {sessions[i][2] : i \in {j \in 1..Len(sessions) : sessions[j][1] = curve_key}}

\* C18: a successful save_olm_sessions leaves, under every peer key, the
\* sessions that were stored and are not saved now together with the
\* sessions saved now under the key (so the same save twice changes nothing,
\* and two sessions of one peer key are both stored), and a successful
\* get_olm_sessions returns the sessions stored under the key, each once.
C18_IdempotentUpsert ==
    [][\A c \in Conns :
        (last'.conn = c /\ last'.err = "none")
        => /\ last'.op = "save_olm_sessions"
              => \A k \in CurveKeys :
                    Stored(c, k)' = (Stored(c, k) \ Saved(last'.arg))
                                    \cup SavedUnder(last'.arg, k)
           /\ last'.op = "get_olm_sessions"
              => LET found == IF last'.ret = None THEN <<>> ELSE last'.ret[1]
                 IN /\ {found[i] : i \in 1..Len(found)} = Stored(c, last'.arg[1])
                    /\ Len(found) = Cardinality(Stored(c, last'.arg[1]))]_vars

\* Two sessions of one peer key were saved, and get_olm_sessions returned both.
C18_Witness ==
    /\ last.op = "get_olm_sessions"
    /\ last.err = "none"
    /\ last.ret # None
    /\ Len(last.ret[1]) = 2

\* C19: get_olm_sessions returns None, never an empty sequence, exactly when
\* no session is stored for the peer key; the destination it is given holds
\* after the call, under every key it had, the sessions it had, followed
\* under the requested key by the sessions returned.
C19_SessionsMergeAdditive ==
    (last.op = "get_olm_sessions" /\ last.err = "none")
    => /\ last.ret # Some(<<>>)
       /\ (last.ret = None) <=> (Stored(last.conn, last.arg[1]) = {})
       /\ last.arg[2] # None
          => /\ last.dest # None
             /\ LET before == last.arg[2][1]
                    after == last.dest[1]
                    found == IF last.ret = None THEN <<>> ELSE last.ret[1]
                IN /\ \A k \in DOMAIN before :
                        /\ k \in DOMAIN after
                        /\ Len(after[k]) >= Len(before[k])
                        /\ \A i \in 1..Len(before[k]) : after[k][i] = before[k][i]
                   /\ last.arg[1] \in DOMAIN before
                      => after[last.arg[1]] = before[last.arg[1]] \o found

\* The destination held a session under the requested key, and the call
\* found a stored session for the key.
C19_Witness ==
    /\ last.op = "get_olm_sessions"
    /\ last.err = "none"
    /\ last.arg[2] # None
    /\ last.arg[1] \in DOMAIN last.arg[2][1]
    /\ last.ret # None
    /\ Len(last.dest[1][last.arg[1]]) >= 2

(***************************************************************************)
(* Properties of the construction of the device.                           *)
(***************************************************************************)
\* C21: a constructed device aims at round(p * M/2) signed and at
\* round((1-p) * M/2) unsigned one-time keys, for every proportion p in [0,1]
\* and every capacity M of the engine, odd ones included (M/2 the exact half,
\* rounded as the interpreter rounds).
C21_TargetsAreRoundedHalves ==
    (last.op = "__init__" /\ otk.pc = "ready")
    => LET M == last.arg[1]
           p == last.arg[2]
           python == last.arg[4]
       IN /\ otk.otk_target_counts["signed_curve25519"]
               = round(p[1] * M, 2 * p[2], python)
          /\ otk.otk_target_counts["curve25519"]
               = round((p[2] - p[1]) * M, 2 * p[2], python)

\* C22: the construction raises the ValueError exactly when the proportion
\* or the threshold lies outside [0,1]; it succeeds inside, at 0 and at 1 too.
C22_RangeValidated ==
    last.op = "__init__"
    => LET p == last.arg[2]
           t == last.arg[3]
           inside == /\ 0 <= p[1] /\ p[1] <= p[2]
                     /\ 0 <= t[1] /\ t[1] <= t[2]
       IN /\ inside => otk.pc = "ready" /\ last.err = "none"
          /\ ~inside => otk.pc = "ValueError" /\ last.err = "ValueError"

\* A device was constructed with the proportion 1 and the threshold 0.
C22_Witness ==
    /\ last.op = "__init__"
    /\ last.arg[2] = <<1, 1>>
    /\ last.arg[3] = <<0, 1>>
    /\ otk.pc = "ready"

(***************************************************************************)
(* Properties of the connections.                                          *)
(***************************************************************************)
\* C23: a connection of the store is used only by the thread it was created
\* for: whenever a method running on a thread reads self.conn, it gets the
\* connection that was made for that thread.
C23_ConnectionPerThread ==
    last.op = "conn" => last.ret = Some(last.arg)

(***************************************************************************)
(* Properties of the upserts.                                              *)
(***************************************************************************)
\* C24: after a successful save_olm_account or save_outbound_session the
\* stored row of the key is the value that call wrote, whole: whoever wrote
\* the key before, no column of an earlier writer is left and the row is
\* there (so the same save twice stores what one save stores, and of two
\* writers the last one wins).
C24_UpsertLastWriterWins ==
    [][\A c \in Conns :
        (last'.conn = c /\ last'.err = "none")
        => /\ last'.op = "save_olm_account"
              => SelectAccount(View(c), c[1])'
                   = {[device_id |-> c[1],
                       account |-> Pickle(last'.arg, pickle_key(c[1]))]}
           /\ last'.op = "save_outbound_session"
              => \A r \in Rooms, s \in OutboundSessions :
                    last'.arg = <<r, s>>
                    => SelectOutbound(View(c), c[1], r)'
                         = {[device_id |-> c[1], room_id |-> r,
                             session |-> OutboundPickle(s, pickle_key(c[1])),
                             max_age_s |-> s.max_age,
                             max_messages |-> s.max_messages,
                             creation_time |-> s.creation_time,
                             message_count |-> s.message_count]}]_vars

\* C25: a save_outbound_session over the stored session of a (device, room)
\* leaves a stored message_count that is not smaller and the stored
\* creation_time as it was, and the database never holds two outbound
\* sessions of one (device, room).
C25_CountGrowsCreationFixed ==
    [][/\ \A d \in DeviceIds, r \in Rooms :
            /\ Cardinality(SelectOutbound(disk, d, r)') <= 1
            /\ Cardinality(SelectOutbound(work, d, r)') <= 1
       /\ \A c \in Conns, r \in Rooms :
            ( /\ last'.op = "save_outbound_session"
              /\ last'.err = "none"
              /\ last'.conn = c
              /\ last'.arg[1] = r
              /\ OutboundArgs(c, r) # None )
            => /\ OutboundArgs(c, r)' # None
               /\ OutboundArgs(c, r)'[1].message_count
                    >= OutboundArgs(c, r)[1].message_count
               /\ OutboundArgs(c, r)'[1].creation_time
                    = OutboundArgs(c, r)[1].creation_time]_vars

\* A session was saved over the stored session of another creation time.
C25_Witness ==
    /\ last.op = "save_outbound_session"
    /\ last.err = "none"
    /\ OutboundArgs(last.conn, last.arg[1]) # None
    /\ OutboundArgs(last.conn, last.arg[1])[1].session
         = OutboundPickle(last.arg[2], pickle_key(last.conn[1]))
    /\ OutboundArgs(last.conn, last.arg[1])[1].creation_time
         # last.arg[2].creation_time

(***************************************************************************)
(* Properties of the rotation policy.                                      *)
(***************************************************************************)
\* C26: a session needs rotation exactly when its age reached max_age or its
\* message count reached max_messages, and that is final: once the room's
\* session needs rotation, whatever the caller holds afterwards as the same
\* session (the object itself, or what the store returns for it) needs
\* rotation too, so it is not used to encrypt a further message.
C26_NeedsRotationIsTerminal ==
    [][( /\ otk.session # None
         /\ otk'.session # None
         /\ otk'.session[1].ratchet[1] = otk.session[1].ratchet[1]
         /\ \/ otk.session[1].message_count >= otk.session[1].max_messages
            \/ otk.now - otk.session[1].creation_time >= otk.session[1].max_age )
       => \/ otk'.session[1].message_count >= otk'.session[1].max_messages
          \/ otk'.now - otk'.session[1].creation_time >= otk'.session[1].max_age]_vars

(***************************************************************************)
(* Properties of the schema.                                               *)
(***************************************************************************)
\* The rows of the tables that reference accounts(device_id).
Children(db) ==
    db.olm_sessions \cup db.megolm_inbound_sessions
    \cup db.megolm_outbound_sessions \cup db.device_keys
    \cup db.tracked_users \cup db.sync_tokens

\* C27: in the database as committed, every pairwise session, inbound
\* session, outbound session, device-key, tracked-user and sync-token row
\* belongs to a device that has an account row, and every shared-device row
\* to a (device, room) that has an outbound session, whichever connection
\* made the calls.
C27_ReferentialIntegrity ==
    /\ \A r \in Children(disk) : HasAccount(disk, r.device_id)
    /\ \A d \in disk.megolm_outbound_devices :
          HasOutbound(disk, d.device_id, d.room_id)

(***************************************************************************)
(* Properties of the replenishment.                                        *)
(***************************************************************************)
\* C28: when upload_one_time_keys, called directly or by
\* update_one_time_key_counts, returns after working from counts that were
\* the numbers of keys the homeserver held, the homeserver holds at least
\* the target number of keys of every flavor and the engine holds no
\* unpublished key.
C28_ReplenishmentRestoresTargets ==
    [][( /\ otk'.pc = "ready"
         /\ otk'.request # None
         /\ otk'.err = "none"
         /\ \A f \in Flavors : Get(otk'.known, f, 0) = Cardinality(otk.server[f]) )
       => /\ \A f \in Flavors :
                Cardinality(otk'.server[f]) >= otk'.otk_target_counts[f]
          /\ otk'.keys = {}]_vars

\* C29: a map that get_olm_sessions and load_olm_sessions were given as
\* destination, any number of times, holds no session twice in the list of
\* a peer key.
C29_HeldOnce ==
    (last.op \in {"get_olm_sessions", "load_olm_sessions"} /\ last.err = "none"
        /\ last.dest # None)
    => \A k \in DOMAIN last.dest[1] :
         \A i, j \in 1..Len(last.dest[1][k]) :
            last.dest[1][k][i].id = last.dest[1][k][j].id => i = j

====
